---- MODULE Spec2Model ----
(***************************************************************************)
(* ScribeAI: session lifecycle, chunk ingestion queue and one-shot         *)
(* transcript/summary completion.                                          *)
(*                                                                         *)
(* The handlers are async functions on one event loop.  Each action below  *)
(* is one awaited operation (a store call, an external model call) taking  *)
(* effect together with the synchronous code that runs when its await      *)
(* resumes, up to the point where the next operation is awaited.  The pc   *)
(* of a request names the operation it is awaiting.                        *)
(***************************************************************************)
EXTENDS Integers, Sequences, FiniteSets, TLC

\* ------------------------------------------------------------------ bounds
MaxChunks == 2          \* ingest requests (= TranscriptChunk rows) per run
MaxSeq == 1             \* sequence numbers a client supplies: 0..MaxSeq
MaxPolls == 1           \* client POSTs to /api/session/summary
MaxStops == 1           \* client POSTs to /api/session/stop
MaxTransientFaults == 4 \* 503 answers the external model gives in a run

\* ------------------------------------------------------- program constants
\* (mutation: one attempt more)
maxAttemptsRaised == 4 + 1
maxAttempts == 4

Sessions == {"s1", "s2"}     \* session ids the store may hand out
OneSession == {"s1"}         \* the session of the single-session runs
\* (mutation: the row is created with no text)
PlaceholderEmpty == << >>
\* transcribe/route.ts line 174: the text a chunk row is created with
Placeholder == <<"Transcribing...">>
\* what the external model may return for an audio chunk: text is a sequence
\* of characters, " " being white space
TranscriptTexts == { <<"a">>, <<" ", "b", " ">>, <<" ">> }
SummaryTexts == {"sumA", "sumB"}
\* what a failed attempt at the external model throws: its status and whether
\* its message matches /503|Service Unavailable/i
NoError == [status |-> 0, unavailable |-> FALSE]
ServiceUnavailable == [status |-> 503, unavailable |-> TRUE]
Overloaded == [status |-> 0, unavailable |-> TRUE]
BadRequest == [status |-> 400, unavailable |-> FALSE]
\* what getApiKey throws, before any attempt
ConfigurationError ==
  [status |-> 0, unavailable |-> FALSE, missing |-> "GEMINI_API_KEY"]

VARIABLES
  sessions,           \* Session table: id -> status
  chunks,             \* TranscriptChunk table: row id -> row
  fullTranscripts,    \* FullTranscript table: set of rows
  summaries,          \* Summary table: set of rows
  sessionLastChunks,  \* stop/route.ts: Map<sessionId, lastSequence>
  sessionQueues,      \* transcribe/route.ts: Map<sessionKey, Promise>
  ingest,             \* POST /api/transcribe requests, by the chunk they made
  sumReq,             \* POST /api/session/summary requests
  stopReq,            \* POST /api/session/stop requests
  faults,             \* transient failures the external model has produced
  summarizeCalls,     \* generateSummary invocations per session
  apiKey              \* process.env.GEMINI_API_KEY is set

vars == <<sessions, chunks, fullTranscripts, summaries, sessionLastChunks,
          sessionQueues, ingest, sumReq, stopReq, faults, summarizeCalls,
          apiKey>>

store == <<sessions, chunks, fullTranscripts, summaries>>

\* ------------------------------------------------------------------- text
IsSpace(c) == c = " "

RECURSIVE TrimStart(_)
TrimStart(t) ==
  IF t # <<>> /\ IsSpace(Head(t)) THEN TrimStart(Tail(t)) ELSE t

RECURSIVE TrimEnd(_)
TrimEnd(t) ==
  IF t # <<>> /\ IsSpace(t[Len(t)]) THEN TrimEnd(SubSeq(t, 1, Len(t) - 1)) ELSE t

\* String.prototype.trim
Trim(t) == TrimEnd(TrimStart(t))

\* Array.prototype.join(' ') over a sequence of texts
RECURSIVE JoinSpace(_)
JoinSpace(ts) ==
  IF ts = <<>> THEN <<>>
  ELSE IF Len(ts) = 1 THEN ts[1]
  ELSE ts[1] \o <<" ">> \o JoinSpace(Tail(ts))

\* Array.prototype.filter over a sequence
RECURSIVE FilterNonEmpty(_)
FilterNonEmpty(ts) ==
  IF ts = <<>> THEN <<>>
  ELSE IF Len(Head(ts)) > 0 THEN <<Head(ts)>> \o FilterNonEmpty(Tail(ts))
  ELSE FilterNonEmpty(Tail(ts))

\* ------------------------------------------------------------------ store
ChunkIds == DOMAIN chunks

SessionExists(s) == s \in DOMAIN sessions

HasFullTranscript(s) == \E ft \in fullTranscripts : ft.sessionId = s
HasSummary(s) == \E sm \in summaries : sm.sessionId = s
FullTranscriptOf(s) == CHOOSE ft \in fullTranscripts : ft.sessionId = s
SummaryOf(s) == CHOOSE sm \in summaries : sm.sessionId = s

\* sessionLastChunks.get(sessionId): {} stands for undefined
getLastChunkSequence(s) ==
  IF s \in DOMAIN sessionLastChunks THEN {sessionLastChunks[s]} ELSE {}

MapSet(m, k, v) == [x \in DOMAIN m \cup {k} |-> IF x = k THEN v ELSE m[x]]
MapDelete(m, k) == [x \in DOMAIN m \ {k} |-> m[x]]

Init ==
  /\ sessions = << >>
  /\ chunks = << >>
  /\ fullTranscripts = {}
  /\ summaries = {}
  /\ sessionLastChunks = << >>
  /\ sessionQueues = << >>
  /\ ingest = << >>
  /\ sumReq = << >>
  /\ stopReq = << >>
  /\ faults = 0
  /\ summarizeCalls = [s \in Sessions |-> 0]
  /\ apiKey = TRUE

\* (mutation: the key is not tested)
HasCredentialUntested == TRUE

\* gemini.ts lines 10-16: getApiKey throws when the variable is not set
HasCredential == apiKey

\* ---------------------------------------------------------- session/start
StartSession(s) ==
  /\ ~SessionExists(s)
  /\ sessions' = MapSet(sessions, s, "RECORDING")
  /\ UNCHANGED <<apiKey, chunks, fullTranscripts, summaries, sessionLastChunks,
                 sessionQueues, ingest, sumReq, stopReq, faults, summarizeCalls>>

\* ------------------------------------------------------------- transcribe
\* (mutation: one key for every session)
SessionKeyShared(s) == "no-session"

\* transcribe/route.ts line 182: const sessionKey = sessionId || 'no-session'
SessionKey(s) == s

\* (mutation: the task is not chained on the tail of the queue)
PrevPromiseResolved(s) == 0

\* line 183: sessionQueues.get(sessionKey) ?? Promise.resolve(); 0 stands for
\* the resolved promise, i > 0 for `current` of the request that made chunk i
PrevPromise(s) ==
  IF SessionKey(s) \in DOMAIN sessionQueues THEN sessionQueues[SessionKey(s)] ELSE 0

PromiseState(p) == IF p = 0 THEN "fulfilled" ELSE ingest[p].promise

\* (mutation: the entry is deleted without the test tail === current)
CleanupQueueUnconditional(q, s, i) ==
  IF SessionKey(s) \in DOMAIN q THEN MapDelete(q, SessionKey(s)) ELSE q

\* lines 201-206: current.finally(() => { if (tail === current) delete })
CleanupQueue(q, s, i) ==
  IF SessionKey(s) \in DOMAIN q /\ q[SessionKey(s)] = i
  THEN MapDelete(q, SessionKey(s)) ELSE q

\* the requests whose `current` is chained (prev.then) on promise i and has
\* not started its task
Chained(i) == {j \in DOMAIN ingest : ingest[j].pc = "queued" /\ ingest[j].prev = i}

RECURSIVE Behind(_)
Behind(i) == Chained(i) \cup UNION {Behind(j) : j \in Chained(i)}

\* what holds at the moment a transcription fails for a chunk of session s
\* with sequence seq (kept in the request's record for the history of the
\* session): the boundary in memory covers the chunk, the session has no
\* FullTranscript and no summary request for it is being handled
FailsCovered(s, seq) ==
  /\ s \in DOMAIN sessionLastChunks
  /\ seq <= sessionLastChunks[s]
  /\ ~HasFullTranscript(s)
  /\ \A r \in DOMAIN sumReq : sumReq[r].session = s => sumReq[r].pc = "done"

\* lines 133-198: the chunk row is created with the placeholder, the task is
\* chained on the session's tail promise and becomes the new tail.  The row
\* id and its timestamp (CURRENT_TIMESTAMP) are the place of the insert in the
\* table; the foreign key wants the session to exist (for another session id
\* the insert throws and the request answers 500 with no effect).  The
\* callback of prev.then runs when prev is fulfilled; when prev is rejected
\* it is skipped and `current` is rejected with prev's error.  Without the
\* API key transcribeAudio throws before its first attempt (gemini.ts lines
\* 41-42 and 103-107) and `current` is rejected in the same turn.
IngestChunk(s, seq, limit) ==
  /\ SessionExists(s)
  /\ Len(chunks) < limit
  /\ LET id == Len(chunks) + 1
         prev == PrevPromise(s)
         st == PromiseState(prev)
         calls == st = "fulfilled" /\ HasCredential
         throws == st = "fulfilled" /\ ~HasCredential
     IN /\ chunks' = Append(chunks, [sessionId |-> s, text |-> Placeholder,
                                      sequence |-> seq, timestamp |-> id])
        /\ sessionQueues' = MapSet(sessionQueues, SessionKey(s), id)
        /\ ingest' = Append(ingest,
             [pc |-> CASE calls -> "transcribing"
                       [] st = "pending" -> "queued"
                       [] OTHER -> "done",
              prev |-> prev,
              attempts |-> IF calls THEN 1 ELSE 0,
              promise |-> IF st = "rejected" \/ throws THEN "rejected" ELSE "pending",
              lastErr |-> IF throws THEN ConfigurationError ELSE NoError,
              failures |-> 0,
              covered |-> (st = "rejected" \/ throws) /\ FailsCovered(s, seq),
              transcription |-> << >>,
              resp |-> IF st = "rejected" \/ throws THEN "Error" ELSE "none"])
  /\ UNCHANGED <<apiKey, sessions, fullTranscripts, summaries, sessionLastChunks,
                 sumReq, stopReq, faults, summarizeCalls>>

\* lines 185-206: transcribeAudio returned txt: `current` is fulfilled, the
\* request resumes after `await current`, cleans the queue up and issues the
\* row update; the task chained on `current` starts.
TranscribeReturn(i, txt) ==
  /\ i \in DOMAIN ingest
  /\ ingest[i].pc = "transcribing"
  /\ ingest' = [j \in DOMAIN ingest |->
        IF j = i THEN [ingest[j] EXCEPT !.pc = "update", !.promise = "fulfilled",
                                        !.transcription = txt]
        ELSE IF j \in Chained(i)
          THEN [ingest[j] EXCEPT !.pc = "transcribing", !.attempts = 1]
        ELSE ingest[j]]
  /\ sessionQueues' = CleanupQueue(sessionQueues, chunks[i].sessionId, i)
  /\ UNCHANGED <<apiKey, store, sessionLastChunks, sumReq, stopReq, faults, summarizeCalls>>

\* (mutation: the rejection of `current` is not passed on to the promises
\* chained on it)
RejectedAlone(i) ==
  [ingest EXCEPT ![i].pc = "done", ![i].promise = "rejected", ![i].resp = "Error",
                 ![i].covered = FailsCovered(chunks[i].sessionId, chunks[i].sequence)]

\* gemini.ts: the `current` of request i is rejected: its handler answers 500
\* (lines 260-266) without reaching the clean-up of lines 201-206, and every
\* promise chained on it is rejected with the same error.
Rejected(i) ==
  [j \in DOMAIN ingest |->
     IF j = i \/ j \in Behind(i)
     THEN [ingest[j] EXCEPT !.pc = "done", !.promise = "rejected", !.resp = "Error",
                            !.covered = FailsCovered(chunks[j].sessionId,
                                                     chunks[j].sequence)]
     ELSE ingest[j]]

\* gemini.ts line 76: err.status === 503 || /503|Service Unavailable/i.test(err.message)
isTransient(err) == err.status = 503 \/ err.unavailable

\* (mutation: the loop gives up one attempt early)
AttemptFailedOneShort(i, err) ==
  IF ingest[i].attempts < maxAttempts - 1 /\ isTransient(err)
  THEN [ingest EXCEPT ![i].attempts = @ + 1, ![i].lastErr = err,
                       ![i].failures = @ + 1]
  ELSE [Rejected(i) EXCEPT ![i].lastErr = err, ![i].failures = @ + 1]

\* (mutation: every failure is retried)
AttemptFailedAlwaysTransient(i, err) ==
  IF ingest[i].attempts < maxAttempts
  THEN [ingest EXCEPT ![i].attempts = @ + 1, ![i].lastErr = err,
                       ![i].failures = @ + 1]
  ELSE [Rejected(i) EXCEPT ![i].lastErr = err, ![i].failures = @ + 1]

\* gemini.ts lines 74-102: the attempt of request i threw err: the next
\* attempt is made after the back-off, or the loop is left and lastErr thrown
AttemptFailed(i, err) ==
  IF ingest[i].attempts < maxAttempts /\ isTransient(err)
  THEN [ingest EXCEPT ![i].attempts = @ + 1, ![i].lastErr = err,
                       ![i].failures = @ + 1]
  ELSE [Rejected(i) EXCEPT ![i].lastErr = err, ![i].failures = @ + 1]

\* gemini.ts lines 74-87: an attempt failed with a transient error (503)
TranscribeTransient(i) ==
  /\ i \in DOMAIN ingest
  /\ ingest[i].pc = "transcribing"
  /\ faults < MaxTransientFaults
  /\ faults' = faults + 1
  /\ \E err \in {ServiceUnavailable, Overloaded} : ingest' = AttemptFailed(i, err)
  /\ UNCHANGED <<apiKey, store, sessionLastChunks, sessionQueues, sumReq, stopReq,
                 summarizeCalls>>

\* gemini.ts lines 74-107: an attempt failed with a non-transient error (or
\* the last attempt failed): transcribeAudio throws
TranscribeFatal(i) ==
  /\ i \in DOMAIN ingest
  /\ ingest[i].pc = "transcribing"
  /\ ingest' = AttemptFailed(i, BadRequest)
  /\ UNCHANGED <<apiKey, store, sessionLastChunks, sessionQueues, sumReq, stopReq,
                 faults, summarizeCalls>>

\* a summary request that has not answered yet
NewSummaryRequest(s) ==
  [session |-> s, pc |-> "summaryLookup", lastChunkSeq |-> {}, text |-> << >>,
   summary |-> "", resp |-> "none", cached |-> FALSE, error |-> ""]

\* (mutation: a chunk written after the FullTranscript was made is appended
\* to it)
ChunkUpdateExtendsTranscript(i) ==
  /\ i \in DOMAIN ingest
  /\ ingest[i].pc = "update"
  /\ chunks' = [chunks EXCEPT ![i].text = ingest[i].transcription]
  /\ fullTranscripts' =
       {IF row.sessionId = chunks[i].sessionId
        THEN [row EXCEPT !.text = @ \o <<" ">> \o ingest[i].transcription]
        ELSE row : row \in fullTranscripts}
  /\ LET last == getLastChunkSequence(chunks[i].sessionId)
     IN ingest' = IF last # {} /\ \A n \in last : chunks[i].sequence >= n
                  THEN [ingest EXCEPT ![i].pc = "lookup"]
                  ELSE [ingest EXCEPT ![i].pc = "done", ![i].resp = "Ok"]
  /\ UNCHANGED <<apiKey, sessions, summaries, sessionLastChunks,
                 sessionQueues, sumReq, stopReq, faults, summarizeCalls>>

\* transcribe/route.ts lines 208-221 and 255-258: the row gets the
\* transcription; the boundary is read from memory; the request either goes on
\* to look the session up or answers
ChunkUpdate(i) ==
  /\ i \in DOMAIN ingest
  /\ ingest[i].pc = "update"
  /\ chunks' = [chunks EXCEPT ![i].text = ingest[i].transcription]
  /\ LET last == getLastChunkSequence(chunks[i].sessionId)
     IN ingest' = IF last # {} /\ \A n \in last : chunks[i].sequence >= n
                  THEN [ingest EXCEPT ![i].pc = "lookup"]
                  ELSE [ingest EXCEPT ![i].pc = "done", ![i].resp = "Ok"]
  /\ UNCHANGED <<apiKey, sessions, fullTranscripts, summaries, sessionLastChunks,
                 sessionQueues, sumReq, stopReq, faults, summarizeCalls>>

\* (mutation: the request awaits the answer of the POST it sends)
SessionLookupAwaitingSummary(i) ==
  /\ i \in DOMAIN ingest
  /\ ingest[i].pc = "lookup"
  /\ LET s == chunks[i].sessionId
         triggers == SessionExists(s) /\ sessions[s] = "PROCESSING"
                       /\ ~HasFullTranscript(s)
     IN /\ sumReq' = IF triggers
                     THEN MapSet(sumReq, <<"auto", i>>, NewSummaryRequest(s))
                     ELSE sumReq
        /\ ingest' = IF triggers
                     THEN [ingest EXCEPT ![i].pc = "awaitSummary"]
                     ELSE [ingest EXCEPT ![i].pc = "done", ![i].resp = "Ok"]
  /\ UNCHANGED <<apiKey, store, sessionLastChunks, sessionQueues, stopReq, faults,
                 summarizeCalls>>

\* lines 221-258: session.findUnique; when the session is PROCESSING and has
\* no full transcript a POST to /api/session/summary is sent and not awaited
SessionLookup(i) ==
  /\ i \in DOMAIN ingest
  /\ ingest[i].pc = "lookup"
  /\ LET s == chunks[i].sessionId
     IN sumReq' = IF SessionExists(s) /\ sessions[s] = "PROCESSING"
                     /\ ~HasFullTranscript(s)
                  THEN MapSet(sumReq, <<"auto", i>>, NewSummaryRequest(s))
                  ELSE sumReq
  /\ ingest' = [ingest EXCEPT ![i].pc = "done", ![i].resp = "Ok"]
  /\ UNCHANGED <<apiKey, store, sessionLastChunks, sessionQueues, stopReq, faults,
                 summarizeCalls>>

\* ---------------------------------------------------------- session/summary
\* the unique indexes FullTranscript_sessionId_key and Summary_sessionId_key:
\* an insert for a session that has a row already fails
\* (mutation: the table has no unique index)
InsertAllowedWithoutIndex(s) == TRUE
FullTranscriptInsertAllowed(s) == ~HasFullTranscript(s)
SummaryInsertAllowed(s) == ~HasSummary(s)

\* (mutation: sequence: { lt: lastChunkSeq })
WhereChunksBelow(s, last) ==
  {c \in ChunkIds : chunks[c].sessionId = s /\ \A n \in last : chunks[c].sequence < n}

\* (mutation: lastChunkSeq ?? 0)
WhereChunksDefaultZero(s, last) ==
  {c \in ChunkIds : /\ chunks[c].sessionId = s
                    /\ \A n \in last : chunks[c].sequence <= n
                    /\ last = {} => chunks[c].sequence <= 0}

\* findMany `where`: sessionId, and sequence <= lastChunkSeq when it is defined
WhereChunks(s, last) ==
  {c \in ChunkIds : chunks[c].sessionId = s /\ \A n \in last : chunks[c].sequence <= n}

\* (mutation: sequence: 'desc')
ChunkBeforeDescending(c, d) ==
  \/ chunks[c].sequence > chunks[d].sequence
  \/ chunks[c].sequence = chunks[d].sequence /\ chunks[c].timestamp < chunks[d].timestamp

\* findMany `orderBy`: [{ sequence: 'asc' }, { timestamp: 'asc' }]
ChunkBefore(c, d) ==
  \/ chunks[c].sequence < chunks[d].sequence
  \/ chunks[c].sequence = chunks[d].sequence /\ chunks[c].timestamp < chunks[d].timestamp

RECURSIVE OrderBy(_)
OrderBy(S) ==
  IF S = {} THEN << >>
  ELSE LET first == CHOOSE c \in S : \A d \in S \ {c} : ChunkBefore(c, d)
       IN <<first>> \o OrderBy(S \ {first})

\* chunks.map(c => c.text.trim()) over the ordered rows
TrimmedTexts(ids) == [k \in 1..Len(ids) |-> Trim(chunks[ids[k]].text)]

\* (mutation: only the sentinel is tested)
StillTranscribingSentinelOnly(c) == chunks[c].text = Placeholder

\* c.text === 'Transcribing...' || c.text.trim() === ''
StillTranscribing(c) == chunks[c].text = Placeholder \/ Trim(chunks[c].text) = << >>

\* chunks.map(trim).filter(text => text.length > 0).join(' ')
FullText(ids) == JoinSpace(FilterNonEmpty(TrimmedTexts(ids)))

Done(req, kind, err) ==
  [req EXCEPT !.pc = "done", !.resp = kind, !.error = err,
              !.lastChunkSeq = {}, !.text = << >>]

Answer(r, kind, err) == [sumReq EXCEPT ![r] = Done(@, kind, err)]

\* part_000 lines 254-257 and gemini.ts lines 143-158: the message of the
\* answer when generateSummary threw for the missing API key
NoCredentialSummary == "Failed to generate summary: GEMINI_API_KEY is not set"

\* (mutation: the existing summary is not looked at)
SummaryLookupSkipped(req) == [req EXCEPT !.pc = "ftLookup"]

\* lines 133-152: summary.findUnique; an existing summary is returned as cached
AfterSummaryLookup(req) ==
  IF HasSummary(req.session)
  THEN [Done(req, "Ok", "") EXCEPT !.cached = TRUE,
                                   !.summary = SummaryOf(req.session).text]
  ELSE [req EXCEPT !.pc = "ftLookup"]

PollIds == {r \in DOMAIN sumReq : r[1] = "poll"}

\* a client POSTs to /api/session/summary: lines 121-152
Poll(s) ==
  /\ SessionExists(s)
  /\ Cardinality(PollIds) < MaxPolls
  /\ sumReq' = MapSet(sumReq, <<"poll", Cardinality(PollIds) + 1>>,
                      AfterSummaryLookup(NewSummaryRequest(s)))
  /\ UNCHANGED <<apiKey, store, sessionLastChunks, sessionQueues, ingest, stopReq, faults,
                 summarizeCalls>>

\* the POST sent by the transcribe route arrives: lines 121-152
SummaryLookup(r) ==
  /\ r \in DOMAIN sumReq
  /\ sumReq[r].pc = "summaryLookup"
  /\ sumReq' = [sumReq EXCEPT ![r] = AfterSummaryLookup(@)]
  /\ UNCHANGED <<apiKey, store, sessionLastChunks, sessionQueues, ingest, stopReq, faults,
                 summarizeCalls>>

\* (mutation: the boundary and the chunks are read whether or not a
\* FullTranscript row is found)
FullTranscriptLookupRereads(r) ==
  /\ r \in DOMAIN sumReq
  /\ sumReq[r].pc = "ftLookup"
  /\ sumReq' = [sumReq EXCEPT ![r].pc = "fetch",
                              ![r].lastChunkSeq =
                                 getLastChunkSequence(sumReq[r].session)]
  /\ UNCHANGED <<apiKey, store, sessionLastChunks, sessionQueues, ingest, stopReq,
                 faults, summarizeCalls>>

\* lines 156-165 and 244-252: fullTranscript.findUnique; without a row the
\* boundary is read from memory and the chunks are fetched, with a row
\* generateSummary is called on its text
FullTranscriptLookup(r) ==
  /\ r \in DOMAIN sumReq
  /\ sumReq[r].pc = "ftLookup"
  /\ LET s == sumReq[r].session
     IN IF HasFullTranscript(s)
        THEN /\ sumReq' = IF HasCredential
                          THEN [sumReq EXCEPT ![r].pc = "summarizing",
                                              ![r].text = FullTranscriptOf(s).text]
                          ELSE Answer(r, "Error", NoCredentialSummary)
             /\ summarizeCalls' = [summarizeCalls EXCEPT ![s] = @ + 1]
        ELSE /\ sumReq' = [sumReq EXCEPT ![r].pc = "fetch",
                                         ![r].lastChunkSeq = getLastChunkSequence(s)]
             /\ UNCHANGED summarizeCalls
  /\ UNCHANGED <<apiKey, store, sessionLastChunks, sessionQueues, ingest, stopReq, faults>>

\* (mutation: chunks that are still being transcribed are left out instead of
\* ending the request with 202)
FetchChunksSkipsPlaceholders(r) ==
  /\ r \in DOMAIN sumReq
  /\ sumReq[r].pc = "fetch"
  /\ LET s == sumReq[r].session
         found == OrderBy({c \in WhereChunks(s, sumReq[r].lastChunkSeq) :
                            ~StillTranscribing(c)})
         fullText == FullText(found)
     IN sumReq' =
          IF Len(found) = 0 THEN Answer(r, "NoTranscript", "No transcript chunks found")
          ELSE [sumReq EXCEPT ![r].pc = "createFT", ![r].text = fullText]
  /\ UNCHANGED <<apiKey, store, sessionLastChunks, sessionQueues, ingest, stopReq, faults,
                 summarizeCalls>>

\* (mutation: the result is not tested for chunks.length === 0)
FetchChunksLengthUntested(r) ==
  /\ r \in DOMAIN sumReq
  /\ sumReq[r].pc = "fetch"
  /\ LET s == sumReq[r].session
         found == OrderBy(WhereChunks(s, sumReq[r].lastChunkSeq))
         fullText == FullText(found)
     IN sumReq' =
          IF \E k \in 1..Len(found) : StillTranscribing(found[k])
            THEN Answer(r, "NotReady", "Transcription still in progress")
          ELSE IF Len(fullText) = 0
            THEN Answer(r, "NoTranscript", "All transcript chunks are empty")
          ELSE [sumReq EXCEPT ![r].pc = "createFT", ![r].text = fullText]
  /\ UNCHANGED <<apiKey, store, sessionLastChunks, sessionQueues, ingest, stopReq, faults,
                 summarizeCalls>>

\* lines 169-229: transcriptChunk.findMany and the checks on its result
FetchChunks(r) ==
  /\ r \in DOMAIN sumReq
  /\ sumReq[r].pc = "fetch"
  /\ LET s == sumReq[r].session
         found == OrderBy(WhereChunks(s, sumReq[r].lastChunkSeq))
         fullText == FullText(found)
     IN sumReq' =
          IF Len(found) = 0 THEN Answer(r, "NoTranscript", "No transcript chunks found")
          ELSE IF \E k \in 1..Len(found) : StillTranscribing(found[k])
            THEN Answer(r, "NotReady", "Transcription still in progress")
          ELSE IF Len(fullText) = 0
            THEN Answer(r, "NoTranscript", "All transcript chunks are empty")
          ELSE [sumReq EXCEPT ![r].pc = "createFT", ![r].text = fullText]
  /\ UNCHANGED <<apiKey, store, sessionLastChunks, sessionQueues, ingest, stopReq, faults,
                 summarizeCalls>>

\* (mutation: the joined text is summarized without being stored)
CreateFullTranscriptSkipped(r) ==
  /\ r \in DOMAIN sumReq
  /\ sumReq[r].pc = "createFT"
  /\ sumReq' = [sumReq EXCEPT ![r].pc = "summarizing"]
  /\ summarizeCalls' = [summarizeCalls EXCEPT ![sumReq[r].session] = @ + 1]
  /\ UNCHANGED <<apiKey, store, sessionLastChunks, sessionQueues, ingest, stopReq, faults>>

\* lines 231-252: fullTranscript.create; a failure is rethrown and answered
\* with 500 by the handler's catch (lines 301-311)
CreateFullTranscript(r) ==
  /\ r \in DOMAIN sumReq
  /\ sumReq[r].pc = "createFT"
  /\ LET s == sumReq[r].session
     IN IF FullTranscriptInsertAllowed(s)
        THEN /\ fullTranscripts' = fullTranscripts \cup
                  {[id |-> r, sessionId |-> s, text |-> sumReq[r].text]}
             /\ sumReq' = IF HasCredential
                          THEN [sumReq EXCEPT ![r].pc = "summarizing"]
                          ELSE Answer(r, "Error", NoCredentialSummary)
             /\ summarizeCalls' = [summarizeCalls EXCEPT ![s] = @ + 1]
        ELSE /\ sumReq' = Answer(r, "Error", "Failed to save full transcript")
             /\ UNCHANGED <<fullTranscripts, summarizeCalls>>
  /\ UNCHANGED <<apiKey, sessions, chunks, summaries, sessionLastChunks, sessionQueues,
                 ingest, stopReq, faults>>

\* lines 250-273: generateSummary returned txt and summary.create is run with
\* it; a failure of the insert is rethrown and answered with 500
SummarizeReturn(r, txt) ==
  /\ r \in DOMAIN sumReq
  /\ sumReq[r].pc = "summarizing"
  /\ LET s == sumReq[r].session
     IN IF SummaryInsertAllowed(s)
        THEN /\ summaries' = summaries \cup {[id |-> r, sessionId |-> s, text |-> txt]}
             /\ sumReq' = [sumReq EXCEPT ![r].pc = "updateStatus", ![r].summary = txt]
        ELSE /\ sumReq' = Answer(r, "Error", "Failed to save summary")
             /\ UNCHANGED summaries
  /\ UNCHANGED <<apiKey, sessions, chunks, fullTranscripts, sessionLastChunks,
                 sessionQueues, ingest, stopReq, faults, summarizeCalls>>

\* (mutation: a failed generateSummary is called again, up to three calls)
SummarizeFailRetries(r) ==
  /\ r \in DOMAIN sumReq
  /\ sumReq[r].pc = "summarizing"
  /\ LET s == sumReq[r].session
     IN IF summarizeCalls[s] < 3
        THEN /\ summarizeCalls' = [summarizeCalls EXCEPT ![s] = @ + 1]
             /\ UNCHANGED sumReq
        ELSE /\ sumReq' = Answer(r, "Error", "Failed to generate summary")
             /\ UNCHANGED summarizeCalls
  /\ UNCHANGED <<apiKey, store, sessionLastChunks, sessionQueues, ingest, stopReq, faults>>

\* lines 254-257: generateSummary threw
SummarizeFail(r) ==
  /\ r \in DOMAIN sumReq
  /\ sumReq[r].pc = "summarizing"
  /\ sumReq' = Answer(r, "Error", "Failed to generate summary")
  /\ UNCHANGED <<apiKey, store, sessionLastChunks, sessionQueues, ingest, stopReq, faults,
                 summarizeCalls>>

\* lines 275-299: session.update to COMPLETED (a failure is only logged), the
\* boundary is dropped from memory and the request answers
UpdateStatus(r) ==
  /\ r \in DOMAIN sumReq
  /\ sumReq[r].pc = "updateStatus"
  /\ LET s == sumReq[r].session
     IN /\ sessions' = IF SessionExists(s)
                       THEN [sessions EXCEPT ![s] = "COMPLETED"] ELSE sessions
        /\ sessionLastChunks' = MapDelete(sessionLastChunks, s)
  /\ sumReq' = Answer(r, "Ok", "")
  /\ UNCHANGED <<apiKey, chunks, fullTranscripts, summaries, sessionQueues, ingest,
                 stopReq, faults, summarizeCalls>>

\* ------------------------------------------------------------- session/stop
\* (mutation: orderBy sequence 'asc')
MinSequence(s) ==
  LET seqs == {chunks[c].sequence : c \in {d \in ChunkIds : chunks[d].sessionId = s}}
  IN IF seqs = {} THEN 0 ELSE CHOOSE m \in seqs : \A n \in seqs : m <= n

\* stop/route.ts lines 66-71: findFirst orderBy sequence desc; ?? 0
MaxSequence(s) ==
  LET seqs == {chunks[c].sequence : c \in {d \in ChunkIds : chunks[d].sessionId = s}}
  IN IF seqs = {} THEN 0 ELSE CHOOSE m \in seqs : \A n \in seqs : n <= m

\* (mutation: a recorded boundary is only ever raised)
StopRequestKeepsLarger(s, lastSequence, limit) ==
  /\ Len(stopReq) < limit
  /\ LET finalSequence == IF lastSequence = {} THEN MaxSequence(s)
                          ELSE CHOOSE n \in lastSequence : TRUE
         kept == IF s \in DOMAIN sessionLastChunks /\ sessionLastChunks[s] > finalSequence
                 THEN sessionLastChunks[s] ELSE finalSequence
     IN /\ sessionLastChunks' = MapSet(sessionLastChunks, s, kept)
        /\ stopReq' = Append(stopReq, [session |-> s, pc |-> "update",
                                       lastSequence |-> lastSequence,
                                       finalSequence |-> finalSequence,
                                       resp |-> "none"])
  /\ UNCHANGED <<apiKey, store, sessionQueues, ingest, sumReq, faults, summarizeCalls>>

\* lines 50-77: lastSequence is a set, {} when the body has none; the boundary
\* is stored in memory before the session is updated
StopRequest(s, lastSequence, limit) ==
  /\ Len(stopReq) < limit
  /\ LET finalSequence == IF lastSequence = {} THEN MaxSequence(s)
                          ELSE CHOOSE n \in lastSequence : TRUE
     IN /\ sessionLastChunks' = MapSet(sessionLastChunks, s, finalSequence)
        /\ stopReq' = Append(stopReq, [session |-> s, pc |-> "update",
                                       lastSequence |-> lastSequence,
                                       finalSequence |-> finalSequence,
                                       resp |-> "none"])
  /\ UNCHANGED <<apiKey, store, sessionQueues, ingest, sumReq, faults, summarizeCalls>>

\* a stop request for a session that has been started
StopSession(s, lastSequence) ==
  /\ SessionExists(s)
  /\ StopRequest(s, lastSequence, MaxStops)

\* lines 79-103: session.update to PROCESSING; it throws when the session does
\* not exist and the handler answers 500
StopUpdate(k) ==
  /\ k \in DOMAIN stopReq
  /\ stopReq[k].pc = "update"
  /\ LET s == stopReq[k].session
     IN IF SessionExists(s)
        THEN /\ sessions' = [sessions EXCEPT ![s] = "PROCESSING"]
             /\ stopReq' = [stopReq EXCEPT ![k].pc = "done", ![k].resp = "Ok"]
        ELSE /\ stopReq' = [stopReq EXCEPT ![k].pc = "done", ![k].resp = "Error"]
             /\ UNCHANGED sessions
  /\ UNCHANGED <<apiKey, chunks, fullTranscripts, summaries, sessionLastChunks,
                 sessionQueues, ingest, sumReq, faults, summarizeCalls>>

\* ---------------------------------------------------------- process restart
InFlightRequests ==
  {<<"ingest", i>> : i \in {j \in DOMAIN ingest : ingest[j].pc # "done"}}
    \cup {<<"summary", r>> : r \in {q \in DOMAIN sumReq : sumReq[q].pc # "done"}}
    \cup {<<"stop", k>> : k \in {m \in DOMAIN stopReq : stopReq[m].pc # "done"}}

\* the server process is started again, with or without the API key in its
\* environment: the module-level maps (stop/route.ts line 41, transcribe
\* route line 124) are new and empty.  Taken when no request is being handled
\* and something is lost or the environment changes.
Restart(key) ==
  /\ InFlightRequests = {}
  /\ sessionLastChunks # << >> \/ sessionQueues # << >> \/ key # apiKey
  /\ sessionLastChunks' = << >>
  /\ sessionQueues' = << >>
  /\ apiKey' = key
  /\ UNCHANGED <<store, ingest, sumReq, stopReq, faults, summarizeCalls>>

\* ---------------------------------------------------------- specifications
Seqs == 0..MaxSeq

\* One session with its ingestion, stop and summary requests.  transcribeAudio
\* is taken as a whole here: it returns a text or throws; its attempts are
\* steps of SpecQ and SpecR.

Next ==
  \/ \E s \in OneSession : StartSession(s)
  \/ \E s \in OneSession, seq \in Seqs : IngestChunk(s, seq, MaxChunks)
  \/ \E i \in DOMAIN ingest, txt \in TranscriptTexts : TranscribeReturn(i, txt)
  \/ \E i \in DOMAIN ingest : TranscribeFatal(i)
  \/ \E i \in DOMAIN ingest : ChunkUpdate(i)
  \/ \E i \in DOMAIN ingest : SessionLookup(i)
  \/ \E s \in OneSession : Poll(s)
  \/ \E r \in DOMAIN sumReq : SummaryLookup(r)
  \/ \E r \in DOMAIN sumReq : FullTranscriptLookup(r)
  \/ \E r \in DOMAIN sumReq : FetchChunks(r)
  \/ \E r \in DOMAIN sumReq : CreateFullTranscript(r)
  \/ \E r \in DOMAIN sumReq, txt \in SummaryTexts : SummarizeReturn(r, txt)
  \/ \E r \in DOMAIN sumReq : SummarizeFail(r)
  \/ \E r \in DOMAIN sumReq : UpdateStatus(r)
  \/ \E s \in OneSession, last \in {{}} \cup {{n} : n \in Seqs} : StopSession(s, last)
  \/ \E k \in DOMAIN stopReq : StopUpdate(k)

Spec == Init /\ [][Next]_vars

\* Two sessions, ingestion only (no boundary is ever recorded): the
\* per-session transcription queues and the attempts of transcribeAudio.
MaxChunksQ == 3

NextQ ==
  \/ \E s \in Sessions : StartSession(s)
  \/ \E s \in Sessions : IngestChunk(s, 0, MaxChunksQ)
  \/ \E i \in DOMAIN ingest : TranscribeReturn(i, <<"a">>)
  \/ \E i \in DOMAIN ingest : TranscribeTransient(i)
  \/ \E i \in DOMAIN ingest : TranscribeFatal(i)
  \/ \E i \in DOMAIN ingest : ChunkUpdate(i)

SpecQ == Init /\ [][NextQ]_vars

\* One session, its ingestion with the attempts of transcribeAudio, and its
\* stop requests; the summary requests sent by the transcribe route are left
\* in flight.
NextR ==
  \/ \E s \in OneSession : StartSession(s)
  \/ \E s \in OneSession, seq \in Seqs : IngestChunk(s, seq, MaxChunks)
  \/ \E i \in DOMAIN ingest, txt \in TranscriptTexts : TranscribeReturn(i, txt)
  \/ \E i \in DOMAIN ingest : TranscribeTransient(i)
  \/ \E i \in DOMAIN ingest : TranscribeFatal(i)
  \/ \E i \in DOMAIN ingest : ChunkUpdate(i)
  \/ \E i \in DOMAIN ingest : SessionLookup(i)
  \/ \E s \in OneSession, last \in {{}} \cup {{n} : n \in Seqs} : StopSession(s, last)
  \/ \E k \in DOMAIN stopReq : StopUpdate(k)

SpecR == Init /\ [][NextR]_vars

\* Two session ids, ingestion and stop requests; a stop request may name a
\* session id that no session has.
MaxStopsS == 2
MaxChunksS == 2

NextS ==
  \/ \E s \in Sessions : StartSession(s)
  \/ \E s \in Sessions, seq \in Seqs : IngestChunk(s, seq, MaxChunksS)
  \/ \E i \in DOMAIN ingest : TranscribeReturn(i, <<"a">>)
  \/ \E i \in DOMAIN ingest : ChunkUpdate(i)
  \/ \E i \in DOMAIN ingest : SessionLookup(i)
  \/ \E s \in Sessions, last \in {{}} \cup {{n} : n \in Seqs} :
        StopRequest(s, last, MaxStopsS)
  \/ \E k \in DOMAIN stopReq : StopUpdate(k)

SpecS == Init /\ [][NextS]_vars

\* One session without client polls and without failures of the external
\* model: the summary requests are the ones the transcribe route sends.  The
\* client's requests may or may not come; a request that is being handled is
\* handled to its end (every awaited call returns and the handler resumes).
ClientL ==
  \/ \E s \in OneSession : StartSession(s)
  \/ \E s \in OneSession, seq \in Seqs : IngestChunk(s, seq, MaxChunks)
  \/ \E s \in OneSession, last \in {{}} \cup {{n} : n \in Seqs} : StopSession(s, last)

HandlersL ==
  \/ \E i \in DOMAIN ingest : TranscribeReturn(i, <<"a">>)
  \/ \E i \in DOMAIN ingest : ChunkUpdate(i)
  \/ \E i \in DOMAIN ingest : SessionLookup(i)
  \/ \E r \in DOMAIN sumReq : SummaryLookup(r)
  \/ \E r \in DOMAIN sumReq : FullTranscriptLookup(r)
  \/ \E r \in DOMAIN sumReq : FetchChunks(r)
  \/ \E r \in DOMAIN sumReq : CreateFullTranscript(r)
  \/ \E r \in DOMAIN sumReq : SummarizeReturn(r, "sumA")
  \/ \E r \in DOMAIN sumReq : UpdateStatus(r)
  \/ \E k \in DOMAIN stopReq : StopUpdate(k)

NextL == ClientL \/ HandlersL

SpecL == Init /\ [][NextL]_vars /\ WF_vars(HandlersL)

\* One session over restarts of the server process: the boundary and the
\* queue are lost, the API key may be missing afterwards.
NextK ==
  \/ \E s \in OneSession : StartSession(s)
  \/ \E s \in OneSession, seq \in Seqs : IngestChunk(s, seq, MaxChunks)
  \/ \E i \in DOMAIN ingest, txt \in {<<"a">>, <<" ">>} : TranscribeReturn(i, txt)
  \/ \E i \in DOMAIN ingest : ChunkUpdate(i)
  \/ \E i \in DOMAIN ingest : SessionLookup(i)
  \/ \E s \in OneSession : Poll(s)
  \/ \E r \in DOMAIN sumReq : SummaryLookup(r)
  \/ \E r \in DOMAIN sumReq : FullTranscriptLookup(r)
  \/ \E r \in DOMAIN sumReq : FetchChunks(r)
  \/ \E r \in DOMAIN sumReq : CreateFullTranscript(r)
  \/ \E r \in DOMAIN sumReq : SummarizeReturn(r, "sumA")
  \/ \E r \in DOMAIN sumReq : UpdateStatus(r)
  \/ \E s \in OneSession, last \in {{}} \cup {{n} : n \in Seqs} : StopSession(s, last)
  \/ \E k \in DOMAIN stopReq : StopUpdate(k)
  \/ \E key \in BOOLEAN : Restart(key)

SpecK == Init /\ [][NextK]_vars

\* One session with repeated stop requests and failures of the external model
\* that are not retried, without client polls: the summary requests are the
\* ones the transcribe route sends.  The client's requests may or may not
\* come; a request that is being handled is handled to its end.
ClientT ==
  \/ \E s \in OneSession : StartSession(s)
  \/ \E s \in OneSession, seq \in Seqs : IngestChunk(s, seq, MaxChunks)
  \/ \E s \in OneSession, last \in {{}} \cup {{n} : n \in Seqs} :
       SessionExists(s) /\ StopRequest(s, last, MaxStopsS)

HandlersT ==
  \/ \E i \in DOMAIN ingest : TranscribeReturn(i, <<"a">>)
  \/ \E i \in DOMAIN ingest : TranscribeFatal(i)
  \/ \E i \in DOMAIN ingest : ChunkUpdate(i)
  \/ \E i \in DOMAIN ingest : SessionLookup(i)
  \/ \E r \in DOMAIN sumReq : SummaryLookup(r)
  \/ \E r \in DOMAIN sumReq : FullTranscriptLookup(r)
  \/ \E r \in DOMAIN sumReq : FetchChunks(r)
  \/ \E r \in DOMAIN sumReq : CreateFullTranscript(r)
  \/ \E r \in DOMAIN sumReq : SummarizeReturn(r, "sumA")
  \/ \E r \in DOMAIN sumReq : UpdateStatus(r)
  \/ \E k \in DOMAIN stopReq : StopUpdate(k)

NextT == ClientT \/ HandlersT

SpecT == Init /\ [][NextT]_vars /\ WF_vars(HandlersT)

\* One session, ingestion only, every request that is being handled being
\* handled to its end: each attempt at the external model returns or throws
\* and each awaited row update returns.  The client's requests may or may
\* not come.
ClientW ==
  \/ \E s \in OneSession : StartSession(s)
  \/ \E s \in OneSession : IngestChunk(s, 0, MaxChunksQ)

HandlerW(i) ==
  \/ TranscribeReturn(i, <<"a">>)
  \/ TranscribeTransient(i)
  \/ TranscribeFatal(i)
  \/ ChunkUpdate(i)

NextW == ClientW \/ \E i \in 1..MaxChunksQ : HandlerW(i)

SpecW == Init /\ [][NextW]_vars /\ \A i \in 1..MaxChunksQ : WF_vars(HandlerW(i))

\* ------------------------------------------------------------------ claims
RowsOf(table, s) == {row \in table : row.sessionId = s}

SameSession(i, j) == chunks[i].sessionId = chunks[j].sessionId

\* C1: under every interleaving of summary requests (client polls and
\* auto-triggers) a session has at most one FullTranscript row and at most one
\* Summary row.
C1_AtMostOneRow ==
  \A s \in Sessions :
    /\ Cardinality(RowsOf(fullTranscripts, s)) <= 1
    /\ Cardinality(RowsOf(summaries, s)) <= 1

\* two requests raced: one inserted the row, the other hit the unique index
C1_Witness ==
  \E r \in DOMAIN sumReq :
    /\ sumReq[r].error = "Failed to save full transcript"
    /\ Cardinality(RowsOf(fullTranscripts, sumReq[r].session)) = 1

\* C2: a summary request that loses the race on a unique index is not
\* answered with an error.
C2_LoserNotAnError ==
  \A r \in DOMAIN sumReq :
    sumReq[r].resp = "Error" =>
      sumReq[r].error \notin {"Failed to save full transcript", "Failed to save summary"}

\* C3: when no summarization call fails, generateSummary is invoked at most
\* once per session.
C3_SummarizeOnce ==
  \A s \in Sessions :
    (\A r \in DOMAIN sumReq :
        sumReq[r].session = s => sumReq[r].error # "Failed to generate summary")
      => summarizeCalls[s] <= 1

\* a summary request takes its first step, the look-up of the Summary row
LooksSummaryUp(r) ==
  \/ r \notin DOMAIN sumReq /\ r \in DOMAIN sumReq' /\ r[1] = "poll"
  \/ /\ r \in DOMAIN sumReq
     /\ sumReq[r].pc = "summaryLookup"
     /\ sumReq'[r] # sumReq[r]

\* C4: once a Summary exists, every summary request made afterwards is
\* answered with the stored summary text and cached = true, and the Summary
\* rows of the session do not change.
C4_CachedOnceSummarized ==
  [][ \A s \in Sessions :
        HasSummary(s) =>
          /\ RowsOf(summaries', s) = RowsOf(summaries, s)
          /\ \A r \in DOMAIN sumReq' :
               (sumReq'[r].session = s /\ LooksSummaryUp(r)) =>
                 /\ sumReq'[r].pc = "done"
                 /\ sumReq'[r].resp = "Ok"
                 /\ sumReq'[r].cached
                 /\ \A row \in RowsOf(summaries, s) : sumReq'[r].summary = row.text
    ]_vars

\* two requests answered from the same Summary row, one that made it and one
\* that found it
C4_Witness ==
  \E r, q \in DOMAIN sumReq :
    /\ sumReq[r].resp = "Ok" /\ sumReq[r].cached
    /\ sumReq[q].resp = "Ok" /\ ~sumReq[q].cached
    /\ sumReq[r].session = sumReq[q].session
    /\ sumReq[r].summary = sumReq[q].summary

\* the text counts as a placeholder: the sentinel, or nothing but white space
IsPlaceholderText(txt) ==
  txt = Placeholder \/ \A k \in 1..Len(txt) : txt[k] = " "

\* a summary request settles its outcome in this step: it answers, or it goes
\* on to create the FullTranscript or to summarize an existing one
Decides(r) ==
  /\ r \in DOMAIN sumReq'
  /\ sumReq'[r].pc \in {"done", "createFT", "summarizing"}
  /\ r \in DOMAIN sumReq => sumReq[r].pc \in {"summaryLookup", "ftLookup", "fetch"}

\* the boundary a deciding request goes by: the one it read before fetching
\* the chunks, else the one recorded when it decides
BoundaryOf(r) ==
  IF r \in DOMAIN sumReq /\ sumReq[r].pc = "fetch"
  THEN sumReq[r].lastChunkSeq
  ELSE getLastChunkSequence(sumReq'[r].session)

\* C5 as stated: for a session with a recorded boundary N, a summary request
\* is answered NotReady if and only if a chunk with sequence <= N holds
\* placeholder text.
C5_NotReadyIffRecorded ==
  [][ \A r \in DOMAIN sumReq' :
        (Decides(r) /\ BoundaryOf(r) # {}) =>
          ((sumReq'[r].resp = "NotReady") <=>
             \E c \in ChunkIds :
               /\ chunks[c].sessionId = sumReq'[r].session
               /\ \E n \in BoundaryOf(r) : chunks[c].sequence <= n
               /\ IsPlaceholderText(chunks[c].text))
    ]_vars

\* C5 (amended): a summary request that found neither a Summary nor a
\* FullTranscript and read the boundary N is answered NotReady if and only if,
\* when it fetches the chunks, a chunk with sequence <= N holds placeholder
\* text; answering NotReady it creates no FullTranscript.
C5_NotReadyIffFetched ==
  [][ \A r \in DOMAIN sumReq :
        (sumReq[r].pc = "fetch" /\ sumReq'[r] # sumReq[r]
           /\ sumReq[r].lastChunkSeq # {}) =>
          /\ (sumReq'[r].resp = "NotReady") <=>
               \E c \in ChunkIds :
                 /\ chunks[c].sessionId = sumReq[r].session
                 /\ \E n \in sumReq[r].lastChunkSeq : chunks[c].sequence <= n
                 /\ IsPlaceholderText(chunks[c].text)
          /\ sumReq'[r].resp = "NotReady" =>
               sumReq'[r].pc = "done" /\ fullTranscripts' = fullTranscripts
    ]_vars

\* a request was answered NotReady for a session whose recorded boundary
\* covers a chunk that is still a placeholder, and no FullTranscript exists
C5_Witness ==
  \E r \in DOMAIN sumReq :
    LET s == sumReq[r].session
    IN /\ sumReq[r].resp = "NotReady"
       /\ s \in DOMAIN sessionLastChunks
       /\ ~HasFullTranscript(s)
       /\ \E c, d \in ChunkIds :
            /\ chunks[c].sessionId = s /\ chunks[d].sessionId = s
            /\ chunks[c].sequence <= sessionLastChunks[s]
            /\ chunks[c].text = Placeholder
            /\ chunks[d].text = <<"a">>

\* the rows of session s within the boundary (a set with no element: no
\* boundary), and their place in the order (sequence, timestamp)
InBoundary(s, last) ==
  {c \in ChunkIds : chunks[c].sessionId = s /\ (last = {} \/ \E n \in last : chunks[c].sequence <= n)}

Place(c, S) ==
  1 + Cardinality({d \in S :
        \/ chunks[d].sequence < chunks[c].sequence
        \/ chunks[d].sequence = chunks[c].sequence /\ chunks[d].timestamp < chunks[c].timestamp})

\* the text without the white space at its ends
Core(txt) ==
  LET inked == {k \in 1..Len(txt) : txt[k] # " "}
  IN IF inked = {} THEN << >>
     ELSE SubSeq(txt, CHOOSE k \in inked : \A m \in inked : k <= m,
                      CHOOSE k \in inked : \A m \in inked : m <= k)

\* the cores of the rows at places k..|S|, the non-empty ones separated by one
\* space
RECURSIVE Spaced(_, _, _)
Spaced(S, k, started) ==
  IF k > Cardinality(S) THEN << >>
  ELSE LET c == CHOOSE x \in S : Place(x, S) = k
           core == Core(chunks[c].text)
       IN IF core = << >> THEN Spaced(S, k + 1, started)
          ELSE (IF started THEN <<" ">> ELSE << >>) \o core \o Spaced(S, k + 1, TRUE)

ExpectedTranscript(s, last) == Spaced(InBoundary(s, last), 1, FALSE)

\* C6: the text a summary request stores as FullTranscript is the
\* single-space join of the non-empty trimmed texts of exactly the chunks of
\* the session with sequence <= N (all of them without a boundary) that it
\* fetched, in ascending (sequence, timestamp) order.
C6_TranscriptIsOrderedJoin ==
  [][ /\ \A r \in DOMAIN sumReq :
           (sumReq[r].pc = "fetch" /\ sumReq'[r].pc = "createFT") =>
             sumReq'[r].text = ExpectedTranscript(sumReq[r].session, sumReq[r].lastChunkSeq)
      /\ \A row \in fullTranscripts' \ fullTranscripts :
           /\ row.id \in DOMAIN sumReq
           /\ sumReq[row.id].pc = "createFT"
           /\ row.text = sumReq[row.id].text
           /\ row.sessionId = sumReq[row.id].session
    ]_vars

\* a FullTranscript made of two chunks in sequence order, the later-ingested
\* one first, trimmed and joined
C6_Witness ==
  \E row \in fullTranscripts :
    /\ row.text = <<"b", " ", "a">>
    /\ \E c, d \in ChunkIds :
         /\ c < d
         /\ chunks[c].text = <<"a">> /\ chunks[d].text = <<" ", "b", " ">>
         /\ chunks[d].sequence < chunks[c].sequence

InFlight(s) ==
  {i \in DOMAIN ingest : chunks[i].sessionId = s /\ ingest[i].pc = "transcribing"}

\* C7: at most one external transcription call is in flight per session.
C7_OneCallPerSession ==
  \A s \in Sessions : Cardinality(InFlight(s)) <= 1

\* a second request of the session waits while the first one's call runs
C7_Witness ==
  \E i, j \in DOMAIN ingest :
    /\ SameSession(i, j)
    /\ ingest[i].pc = "transcribing"
    /\ ingest[j].pc = "queued"

\* C8: the queues of different sessions are independent: a request waits
\* only while a call of its own session is in flight, whatever the calls of
\* the other sessions do.
C8_WaitsOnlyForOwnSession ==
  \A j \in DOMAIN ingest :
    ingest[j].pc = "queued" => InFlight(chunks[j].sessionId) # {}

\* calls of two sessions are in flight at the same time
C8_Witness ==
  \E i, j \in DOMAIN ingest :
    /\ ~SameSession(i, j)
    /\ ingest[i].pc = "transcribing"
    /\ ingest[j].pc = "transcribing"

\* C9: within a session the calls start in the order of submission: when the
\* call of a request has started, the call of every request of the session
\* enqueued before it has finished.
C9_FifoPerSession ==
  \A i, j \in DOMAIN ingest :
    (i < j /\ SameSession(i, j) /\ ingest[j].attempts >= 1) =>
      ingest[i].pc \notin {"queued", "transcribing"}

\* a request that waited behind another one has started its call, a third
\* one waits behind it
C9_Witness ==
  \E i, j, k \in DOMAIN ingest :
    /\ SameSession(i, j) /\ SameSession(j, k)
    /\ ingest[j].prev = i /\ ingest[k].prev = j
    /\ ingest[i].promise = "fulfilled"
    /\ ingest[j].pc = "transcribing"
    /\ ingest[k].pc = "queued"

\* C10: after a transcription task of a session failed, the later chunks of
\* the session still get their own transcription call: no request is
\* answered without its call having been made.
C10_FailureNotInherited ==
  \A j \in DOMAIN ingest :
    ingest[j].pc = "done" => ingest[j].attempts >= 1

\* the external service reported "service unavailable" or the like
TransientSignal(err) == err \in {ServiceUnavailable, Overloaded}

\* C11: a transcribeAudio call makes at most 4 attempts; a further attempt
\* follows only a failure with a transient signal; a call whose first failure
\* is not transient has made one attempt and its error is propagated.
C11_AttemptsPolicy ==
  [][ \A i \in DOMAIN ingest :
        /\ ingest'[i].attempts <= 4
        /\ (ingest[i].attempts >= 1 /\ ingest'[i].attempts # ingest[i].attempts) =>
             /\ ingest'[i].attempts = ingest[i].attempts + 1
             /\ ingest'[i].failures = ingest[i].failures + 1
             /\ TransientSignal(ingest'[i].lastErr)
        /\ (ingest[i].failures = 0 /\ ingest'[i].failures = 1
              /\ ~TransientSignal(ingest'[i].lastErr)) =>
             /\ ingest'[i].attempts = 1
             /\ ingest'[i].promise = "rejected"
             /\ ingest'[i].pc = "done" /\ ingest'[i].resp = "Error"
    ]_vars

\* one call went through three retries, another one failed at once
C11_Witness ==
  \E i, j \in DOMAIN ingest :
    /\ ingest[i].attempts = 4 /\ ingest[i].failures = 3
    /\ ingest[j].attempts = 1 /\ ingest[j].failures = 1
    /\ ingest[j].lastErr = BadRequest /\ ingest[j].resp = "Error"

\* C12: a call that failed with a transient signal on attempts 1-3 makes a
\* fourth attempt; when that one succeeds the call returns its text, the row
\* goes from the placeholder to that text and the request succeeds.
C12_FourthAttemptSucceeds ==
  \A i \in DOMAIN ingest :
    (ingest[i].failures = 3 /\ TransientSignal(ingest[i].lastErr)) =>
      /\ ingest[i].attempts = 4
      /\ ingest[i].pc # "transcribing" =>
           /\ ingest[i].promise = "fulfilled"
           /\ ingest[i].transcription \in TranscriptTexts
           /\ ingest[i].pc \in {"update", "lookup", "done"}
           /\ chunks[i].text =
                IF ingest[i].pc = "update" THEN Placeholder ELSE ingest[i].transcription
           /\ ingest[i].pc = "done" => ingest[i].resp = "Ok"

\* the request of a call that succeeded at the fourth attempt has answered
C12_Witness ==
  \E i \in DOMAIN ingest :
    /\ ingest[i].failures = 3 /\ ingest[i].attempts = 4
    /\ ingest[i].pc = "done" /\ ingest[i].resp = "Ok"
    /\ chunks[i].text = <<" ", "b", " ">>

\* C13: when all 4 attempts of a call failed with transient errors the
\* request answers with a failure, the row keeps the placeholder and the
\* request sends no summary request.
C13_ExhaustedSurfaces ==
  \A i \in DOMAIN ingest :
    (ingest[i].failures = 4 /\ TransientSignal(ingest[i].lastErr)) =>
      /\ ingest[i].pc = "done" /\ ingest[i].resp = "Error"
      /\ ingest[i].promise = "rejected"
      /\ chunks[i].text = Placeholder
      /\ <<"auto", i>> \notin DOMAIN sumReq

\* the failed request is that of a chunk at the boundary of a stopped session
C13_Witness ==
  \E i \in DOMAIN ingest :
    LET s == chunks[i].sessionId
    IN /\ ingest[i].failures = 4 /\ ingest[i].resp = "Error"
       /\ sessions[s] = "PROCESSING"
       /\ s \in DOMAIN sessionLastChunks
       /\ chunks[i].sequence >= sessionLastChunks[s]

\* C14: COMPLETED is terminal: no step changes the status of a session that
\* is COMPLETED.
C14_CompletedIsTerminal ==
  [][ \A s \in DOMAIN sessions :
        sessions[s] = "COMPLETED" => sessions'[s] = "COMPLETED" ]_vars

\* C15: a session becomes COMPLETED only from PROCESSING, never straight from
\* RECORDING.
C15_CompletedOnlyFromProcessing ==
  [][ \A s \in DOMAIN sessions :
        (sessions'[s] = "COMPLETED" /\ sessions[s] # "COMPLETED") =>
          sessions[s] = "PROCESSING" ]_vars

\* C16: a stop request whose sessionId names no session is answered NotFound.
C16_UnknownSessionNotFound ==
  \A k \in DOMAIN stopReq :
    (stopReq[k].pc = "done" /\ ~SessionExists(stopReq[k].session)) =>
      stopReq[k].resp = "NotFound"

\* n is the largest sequence among the chunks of session s, 0 without chunks
IsMaxOrZero(n, s) ==
  /\ \A c \in ChunkIds : chunks[c].sessionId = s => chunks[c].sequence <= n
  /\ n = 0 \/ \E c \in ChunkIds : chunks[c].sessionId = s /\ chunks[c].sequence = n

\* C17: a stop request records as boundary the lastSequence it was given (0
\* included), else the largest sequence among the session's chunks (0 without
\* chunks); when it succeeds the session is PROCESSING and the boundary it
\* recorded is the lastChunkSeq it returns.
C17_StopRecordsBoundary ==
  [][ /\ Len(stopReq') > Len(stopReq) =>
           LET req == stopReq'[Len(stopReq')]
           IN /\ req.session \in DOMAIN sessionLastChunks'
              /\ sessionLastChunks'[req.session] = req.finalSequence
              /\ IF req.lastSequence # {}
                 THEN req.finalSequence \in req.lastSequence
                 ELSE IsMaxOrZero(req.finalSequence, req.session)
      /\ \A k \in DOMAIN stopReq :
           (stopReq[k].pc = "update" /\ stopReq'[k].resp = "Ok") =>
             /\ sessions'[stopReq[k].session] = "PROCESSING"
             /\ stopReq'[k].finalSequence = stopReq[k].finalSequence
    ]_vars

\* a stop that derived the boundary 1 from two chunks and a stop with the
\* explicit boundary 0 have both succeeded
C17_Witness ==
  \E k, m \in DOMAIN stopReq :
    /\ stopReq[k].resp = "Ok" /\ stopReq[m].resp = "Ok"
    /\ stopReq[k].lastSequence = {} /\ stopReq[k].finalSequence = 1
    /\ stopReq[m].lastSequence = {0} /\ stopReq[m].finalSequence = 0
    /\ \E c, d \in ChunkIds :
         /\ chunks[c].sessionId = stopReq[k].session
         /\ chunks[d].sessionId = stopReq[k].session
         /\ chunks[c].sequence = 0 /\ chunks[d].sequence = 1

\* session s has no chunk and a stop request without lastSequence has
\* succeeded for it
StoppedEmpty(s) ==
  /\ \A c \in ChunkIds : chunks[c].sessionId # s
  /\ \E k \in DOMAIN stopReq :
       /\ stopReq[k].session = s
       /\ stopReq[k].lastSequence = {}
       /\ stopReq[k].resp = "Ok"

\* C18: for a session stopped without lastSequence and without chunks every
\* summary request answers "no transcript chunks found", there is no
\* FullTranscript and no Summary, and the session is PROCESSING.
C18_EmptySessionNoTranscript ==
  \A s \in DOMAIN sessions :
    StoppedEmpty(s) =>
      /\ sessions[s] = "PROCESSING"
      /\ RowsOf(fullTranscripts, s) = {}
      /\ RowsOf(summaries, s) = {}
      /\ \A r \in DOMAIN sumReq :
           (sumReq[r].session = s /\ sumReq[r].pc = "done") =>
             /\ sumReq[r].resp = "NoTranscript"
             /\ sumReq[r].error = "No transcript chunks found"

\* the summary request was made after the stop had recorded the boundary 0
C18_Witness ==
  \E s \in DOMAIN sessions, r \in DOMAIN sumReq :
    /\ StoppedEmpty(s)
    /\ sumReq[r].session = s
    /\ sumReq[r].resp = "NoTranscript"
    /\ s \in DOMAIN sessionLastChunks /\ sessionLastChunks[s] = 0

\* what a summary request that is answered NotReady must leave alone
PollFrame == <<fullTranscripts, summaries, sessions, chunks, sessionLastChunks>>

\* a chunk of the session of request r within the boundary `last` holds
\* placeholder text
InRangePlaceholder(r, last) ==
  \E c \in InBoundary(sumReq'[r].session, last) : IsPlaceholderText(chunks[c].text)

\* C19 as stated: every summary request settled while an in-range chunk is
\* still transcribing is answered NotReady and leaves the FullTranscript, the
\* Summary, the session status, the chunk rows and the boundary unchanged.
C19_PollSafeAlways ==
  [][ \A r \in DOMAIN sumReq' :
        (Decides(r) /\ InRangePlaceholder(r, BoundaryOf(r))) =>
          /\ sumReq'[r].resp = "NotReady"
          /\ UNCHANGED PollFrame
    ]_vars

\* C19 (amended): a summary request that found neither a Summary nor a
\* FullTranscript and fetches the chunks while one of them within the
\* boundary it read (any of them without boundary) holds placeholder text is
\* answered NotReady; up to that answer it leaves the FullTranscript, the
\* Summary, the session status, the chunk rows and the boundary unchanged.
C19_PollSafeBeforeTranscript ==
  [][ \A r \in DOMAIN sumReq' :
        /\ (r \in DOMAIN sumReq /\ sumReq[r].pc = "fetch" /\ sumReq'[r] # sumReq[r]
              /\ InRangePlaceholder(r, sumReq[r].lastChunkSeq)) =>
             /\ sumReq'[r].pc = "done"
             /\ sumReq'[r].resp = "NotReady"
        /\ ((r \notin DOMAIN sumReq \/ sumReq'[r] # sumReq[r])
              /\ (sumReq'[r].resp = "NotReady" \/ sumReq'[r].pc \in {"ftLookup", "fetch"})) =>
             UNCHANGED PollFrame
    ]_vars

\* two requests of a session were answered NotReady, and there is still no
\* FullTranscript and no Summary
C19_Witness ==
  \E r, q \in DOMAIN sumReq :
    /\ r # q
    /\ sumReq[r].session = sumReq[q].session
    /\ sumReq[r].resp = "NotReady" /\ sumReq[q].resp = "NotReady"
    /\ ~HasFullTranscript(sumReq[r].session)
    /\ ~HasSummary(sumReq[r].session)
    /\ \E c \in ChunkIds : chunks[c].text = Placeholder

\* a stop request has succeeded for session s and a chunk of s lies within
\* the boundary it recorded
StoppedWithChunks(s) ==
  \E k \in DOMAIN stopReq :
    /\ stopReq[k].session = s
    /\ stopReq[k].resp = "Ok"
    /\ \E c \in ChunkIds :
         chunks[c].sessionId = s /\ chunks[c].sequence <= stopReq[k].finalSequence

Completed(s) ==
  /\ HasFullTranscript(s)
  /\ HasSummary(s)
  /\ SessionExists(s) /\ sessions[s] = "COMPLETED"

\* C20: a session stopped with boundary N eventually has a FullTranscript and
\* a Summary and is COMPLETED, without a client poll, when every external call
\* succeeds, whatever the order of the stop and of the ingestion,
\* transcription and row update of the chunks.
C20_AutoCompletes ==
  \A s \in OneSession : StoppedWithChunks(s) ~> Completed(s)

\* C21: while the API key is missing no call reaches the external model: a
\* transcription call fails at once with the configuration error, without an
\* attempt, and leaves the row with the placeholder; a summarization call
\* fails the same way; no Summary is created.
C21_NoCredentialNoCall ==
  [][ /\ ~apiKey =>
           /\ \A i \in DOMAIN ingest' :
                /\ ingest'[i].pc \notin {"transcribing", "update"}
                /\ i \notin DOMAIN ingest =>
                     /\ ingest'[i].pc = "done" /\ ingest'[i].resp = "Error"
                     /\ ingest'[i].attempts = 0
                     /\ ingest'[i].prev = 0 => ingest'[i].lastErr = ConfigurationError
                     /\ chunks'[i].text = Placeholder
           /\ \A c \in ChunkIds : chunks'[c] = chunks[c]
           /\ \A r \in DOMAIN sumReq' : sumReq'[r].pc # "summarizing"
           /\ \A s \in Sessions :
                summarizeCalls'[s] # summarizeCalls[s] =>
                  \E r \in DOMAIN sumReq :
                    /\ sumReq[r].session = s /\ sumReq[r].pc # "done"
                    /\ sumReq'[r].pc = "done" /\ sumReq'[r].resp = "Error"
                    /\ sumReq'[r].error = NoCredentialSummary
           /\ summaries' = summaries
      /\ \A i \in DOMAIN ingest' :
           ingest'[i].lastErr = ConfigurationError =>
             /\ ingest'[i].attempts = 0 /\ ingest'[i].failures = 0
             /\ chunks'[i].text = Placeholder
    ]_vars

\* without the key a chunk was ingested and a summary was asked for a session
\* that has its FullTranscript
C21_Witness ==
  /\ ~apiKey
  /\ \E i \in DOMAIN ingest : ingest[i].lastErr = ConfigurationError
  /\ \E r \in DOMAIN sumReq :
       /\ sumReq[r].error = NoCredentialSummary
       /\ HasFullTranscript(sumReq[r].session)
       /\ ~HasSummary(sumReq[r].session)

\* the summary requests sent by the transcribe route
AutoIds == {r \in DOMAIN sumReq : r[1] = "auto"}

\* C22: the ingest request that sent a summary request has answered with its
\* chunk and transcription without waiting for it: its answer is there and is
\* the same whether the summary request is still running, succeeded, was
\* answered not-ready or failed.
C22_TriggerDetached ==
  \A r \in AutoIds :
    /\ ingest[r[2]].pc = "done"
    /\ ingest[r[2]].resp = "Ok"
    /\ ingest[r[2]].transcription = chunks[r[2]].text
    /\ ingest[r[2]].transcription \in TranscriptTexts

\* a triggered summary request failed and one was answered not-ready; their
\* ingest requests have succeeded
C22_Witness ==
  \E r, q \in AutoIds :
    /\ sumReq[r].resp = "Error"
    /\ sumReq[q].resp = "NotReady"
    /\ ingest[r[2]].resp = "Ok" /\ ingest[q[2]].resp = "Ok"

\* no request for session s is being handled
Quiet(s) ==
  /\ \A i \in DOMAIN ingest : chunks[i].sessionId = s => ingest[i].pc = "done"
  /\ \A r \in DOMAIN sumReq : sumReq[r].session = s => sumReq[r].pc = "done"
  /\ \A k \in DOMAIN stopReq : stopReq[k].session = s => stopReq[k].pc = "done"

\* C23: once a session has a Summary and no request for it is being handled,
\* the in-memory boundary map has no entry for it.
C23_BoundaryReclaimed ==
  \A s \in Sessions :
    HasSummary(s) /\ Quiet(s) => s \notin DOMAIN sessionLastChunks

\* the positions of a summary request after the chunks have been dealt with
PastChunks == {"summarizing", "updateStatus", "done"}

\* C24: a summary request that finds a FullTranscript row goes on to summarize
\* the text of that row without reading the boundary or the chunks and without
\* writing a FullTranscript; from there it never goes back to the chunks; when
\* the summarization returns it stores the Summary under its session and when
\* the status update runs the session is COMPLETED and the request answers Ok,
\* whatever the chunk rows hold.  FullTranscript rows are written only by
\* requests that came through the chunks.
C24_ResumesFromTranscript ==
  [][ /\ \A r \in DOMAIN sumReq :
           LET s == sumReq[r].session
               before == sumReq[r]
               after == sumReq'[r]
           IN /\ before.pc = "ftLookup" /\ HasFullTranscript(s) /\ HasCredential
                   /\ after # before
                 => /\ after.pc = "summarizing"
                    /\ after.text = FullTranscriptOf(s).text
                    /\ after.lastChunkSeq = before.lastChunkSeq
                    /\ fullTranscripts' = fullTranscripts
              /\ before.pc \in PastChunks => after.pc \in PastChunks
              /\ before.pc = "summarizing"
                   => HasFullTranscript(s) /\ before.text = FullTranscriptOf(s).text
              /\ before.pc = "summarizing" /\ after # before /\ after.resp # "Error"
                 => /\ after.pc = "updateStatus"
                    /\ summaries' = summaries \cup
                         {[id |-> r, sessionId |-> s, text |-> after.summary]}
              /\ before.pc = "updateStatus" /\ after # before
                 => /\ after.pc = "done" /\ after.resp = "Ok"
                    /\ SessionExists(s) => sessions'[s] = "COMPLETED"
      /\ fullTranscripts' # fullTranscripts
           => \E q \in DOMAIN sumReq :
                /\ sumReq[q].pc = "createFT"
                /\ ~HasFullTranscript(sumReq[q].session)
    ]_vars

\* a request answered Ok with the Summary it stored for a FullTranscript that
\* another request had written, the session COMPLETED, while a chunk of the
\* session is a placeholder
C24_Witness ==
  \E r \in DOMAIN sumReq :
    LET s == sumReq[r].session
    IN /\ sumReq[r].resp = "Ok"
       /\ \E row \in summaries : row.id = r /\ row.sessionId = s
       /\ HasFullTranscript(s) /\ FullTranscriptOf(s).id # r
       /\ SessionExists(s) /\ sessions[s] = "COMPLETED"
       /\ \E c \in ChunkIds : chunks[c].sessionId = s /\ chunks[c].text = Placeholder

\* the request of a row has written it, or has failed
Written(rec) == rec.pc \in {"lookup", "done"}

\* C25: a chunk row is never removed and keeps its session, sequence and
\* timestamp; a new row holds 'Transcribing...' and no call for it has
\* returned or failed; the text of a row changes only from 'Transcribing...',
\* only in the step of its own request after its own call has returned, to
\* what that call returned, which is not 'Transcribing...'; after that step,
\* or after its call failed, the text of the row never changes again.
C25_ChunkWrittenOnce ==
  [][ /\ Len(chunks') >= Len(chunks)
      /\ \A c \in DOMAIN chunks :
           /\ chunks'[c].sessionId = chunks[c].sessionId
           /\ chunks'[c].sequence = chunks[c].sequence
           /\ chunks'[c].timestamp = chunks[c].timestamp
           /\ chunks'[c].text # chunks[c].text
              => /\ chunks[c].text = <<"Transcribing...">>
                 /\ ingest[c].pc = "update"
                 /\ ingest[c].promise = "fulfilled"
                 /\ chunks'[c].text = ingest[c].transcription
                 /\ chunks'[c].text # <<"Transcribing...">>
                 /\ Written(ingest'[c])
           /\ Written(ingest[c])
              => Written(ingest'[c]) /\ chunks'[c].text = chunks[c].text
           /\ ingest[c].pc \in {"queued", "transcribing"}
              => chunks[c].text = <<"Transcribing...">>
      /\ \A c \in DOMAIN chunks' \ DOMAIN chunks :
           /\ chunks'[c].text = <<"Transcribing...">>
           /\ ingest'[c].transcription = << >>
           /\ ingest'[c].failures = 0
           /\ ingest'[c].attempts <= 1
    ]_vars

\* a row written with what its call returned on a later attempt, a row left
\* as created by a failed call
C25_Witness ==
  \E c, d \in ChunkIds :
    /\ ingest[c].resp = "Ok" /\ ingest[c].failures > 0
    /\ chunks[c].text = <<" ", "b", " ">>
    /\ ingest[d].resp = "Error" /\ chunks[d].text = <<"Transcribing...">>

\* the chunks of session s whose request ended with the error of the
\* transcription
FailedChunks(s) ==
  {c \in ChunkIds : chunks[c].sessionId = s /\ ingest[c].resp = "Error"}

\* C26 (as stated): when the transcription of a chunk fails while the
\* recorded boundary covers it (the session having no FullTranscript and no
\* summary request being handled), the session never gets a FullTranscript.
C26_StuckNeverTranscribed ==
  \A c \in ChunkIds : ingest[c].covered => ~HasFullTranscript(chunks[c].sessionId)

\* the boundary a request has read covers chunk c
Covers(last, c) == last = {} \/ \A n \in last : chunks[c].sequence <= n

\* C26 (amended): a failed chunk keeps 'Transcribing...' in every later state,
\* and every summary request that fetches the chunks with a boundary that
\* covers a failed chunk of its session (or with no boundary) answers
\* not-ready and leaves FullTranscript, Summary and session status alone.
C26_StuckWhileCovered ==
  [][ /\ \A c \in ChunkIds :
           ingest[c].resp = "Error"
             => /\ chunks[c].text = Placeholder
                /\ chunks'[c].text = Placeholder
                /\ ingest'[c].resp = "Error"
      /\ \A r \in DOMAIN sumReq :
           LET s == sumReq[r].session
           IN /\ sumReq[r].pc = "fetch" /\ sumReq'[r] # sumReq[r]
              /\ \E c \in FailedChunks(s) : Covers(sumReq[r].lastChunkSeq, c)
              => /\ sumReq'[r].pc = "done" /\ sumReq'[r].resp = "NotReady"
                 /\ UNCHANGED <<fullTranscripts, summaries, sessions>>
    ]_vars

\* a request answered not-ready while the one chunk that is not transcribed
\* is a failed chunk within the recorded boundary, after two stop requests
C26_Witness ==
  \E s \in OneSession :
    /\ ~HasFullTranscript(s)
    /\ s \in DOMAIN sessionLastChunks
    /\ \E c \in FailedChunks(s) :
         ingest[c].covered /\ chunks[c].sequence <= sessionLastChunks[s]
    /\ Len(stopReq) = 2
    /\ \E r \in DOMAIN sumReq : sumReq[r].session = s /\ sumReq[r].resp = "NotReady"
    /\ \E c \in ChunkIds : chunks[c].sessionId = s /\ chunks[c].text = <<"a">>
    /\ \A c \in ChunkIds : chunks[c].text = Placeholder => c \in FailedChunks(s)

\* all the chunk rows of session s
AllChunks(s) == {c \in ChunkIds : chunks[c].sessionId = s}

\* C27: a summary request that finds no FullTranscript and no boundary in
\* memory goes on to fetch with no boundary; a request that fetches with no
\* boundary answers not-ready and writes nothing when any chunk of the
\* session is a placeholder, and when the session has chunks and none is a
\* placeholder it goes on to create the FullTranscript with the ordered join
\* of all the chunks of the session, which the next step stores.
C27_NoBoundaryTakesAll ==
  [][ \A r \in DOMAIN sumReq :
        LET s == sumReq[r].session
            before == sumReq[r]
            after == sumReq'[r]
        IN /\ before.pc = "ftLookup" /\ after # before
                /\ ~HasFullTranscript(s) /\ s \notin DOMAIN sessionLastChunks
              => after.pc = "fetch" /\ after.lastChunkSeq = {}
           /\ before.pc = "fetch" /\ before.lastChunkSeq = {} /\ after # before
              => /\ (\E c \in AllChunks(s) : IsPlaceholderText(chunks[c].text))
                    => /\ after.pc = "done" /\ after.resp = "NotReady"
                       /\ UNCHANGED <<fullTranscripts, summaries, sessions, chunks>>
                 /\ /\ AllChunks(s) # {}
                    /\ \A c \in AllChunks(s) : ~IsPlaceholderText(chunks[c].text)
                    => /\ after.pc = "createFT"
                       /\ after.text = ExpectedTranscript(s, {})
                       /\ after.text = Spaced(AllChunks(s), 1, FALSE)
           /\ before.pc = "createFT" /\ after # before /\ after.resp # "Error"
              => fullTranscripts' = fullTranscripts \cup
                   {[id |-> r, sessionId |-> s, text |-> before.text]}
    ]_vars

\* a stop request recorded the boundary 0 and was answered; the map has no
\* entry and no Summary exists (the process was started again); the
\* FullTranscript is made by a client poll of both chunks, the one above the
\* lost boundary included
C27_Witness ==
  \E s \in OneSession :
    /\ \E k \in DOMAIN stopReq :
         stopReq[k].session = s /\ stopReq[k].resp = "Ok" /\ stopReq[k].finalSequence = 0
    /\ s \notin DOMAIN sessionLastChunks
    /\ ~HasSummary(s)
    /\ \E c, d \in AllChunks(s) : chunks[c].sequence = 0 /\ chunks[d].sequence = 1
    /\ HasFullTranscript(s) /\ FullTranscriptOf(s).text = <<"a", " ", "a">>
    /\ FullTranscriptOf(s).id[1] = "poll"

\* C28: a summary request that fetches the chunks answers NoTranscript and
\* writes nothing when it finds no chunk within its boundary, and also when
\* it finds chunks and the text of every one of them is empty after trimming.
C28_BlankIsNoTranscript ==
  [][ \A r \in DOMAIN sumReq :
        LET s == sumReq[r].session
            found == InBoundary(s, sumReq[r].lastChunkSeq)
        IN /\ sumReq[r].pc = "fetch" /\ sumReq'[r] # sumReq[r]
           /\ \A c \in found : Core(chunks[c].text) = << >>
           => /\ sumReq'[r].pc = "done" /\ sumReq'[r].resp = "NoTranscript"
              /\ UNCHANGED <<fullTranscripts, summaries, sessions>>
    ]_vars

\* C29: a summary request calls generateSummary when it moves on from the
\* FullTranscript (found or just created), once: the count of calls for a
\* session grows by one exactly then, and the request leaves the call only
\* forward, never into it again.  When the call fails the request answers
\* with the error, the FullTranscript is still there, and Summary table,
\* session status and boundary map are unchanged.
C29_SummarizeOnceNoCleanup ==
  [][ /\ \A r \in DOMAIN sumReq :
           LET s == sumReq[r].session
               before == sumReq[r]
               after == sumReq'[r]
           IN /\ before.pc # "summarizing" /\ after.pc = "summarizing"
                 => /\ before.pc \in {"ftLookup", "createFT"}
                    /\ summarizeCalls'[s] = summarizeCalls[s] + 1
              /\ before.pc = "summarizing" /\ after # before
                 => after.pc \in {"updateStatus", "done"}
              /\ before.pc \in {"updateStatus", "done"}
                 => after.pc \in {"updateStatus", "done"}
              /\ before.pc = "summarizing" /\ after.error = "Failed to generate summary"
                 => /\ after.pc = "done" /\ after.resp = "Error"
                    /\ HasFullTranscript(s)
                    /\ FullTranscriptOf(s).text = before.text
                    /\ UNCHANGED <<fullTranscripts, summaries, sessions,
                                   sessionLastChunks, summarizeCalls>>
      /\ \A s \in Sessions :
           summarizeCalls'[s] # summarizeCalls[s]
             => \E r \in DOMAIN sumReq :
                  /\ sumReq[r].session = s
                  /\ sumReq[r].pc \in {"ftLookup", "createFT"}
                  /\ sumReq'[r].pc = "summarizing"
    ]_vars

\* the request that created the FullTranscript was answered with the failure
\* of the summarization; the boundary is still recorded, no Summary exists and
\* the session is PROCESSING; a second request is summarizing the stored text
C29_Witness ==
  \E r, q \in DOMAIN sumReq :
    LET s == sumReq[r].session
    IN /\ sumReq[r].pc = "done" /\ sumReq[r].error = "Failed to generate summary"
       /\ HasFullTranscript(s) /\ FullTranscriptOf(s).id = r
       /\ s \in DOMAIN sessionLastChunks
       /\ ~HasSummary(s)
       /\ sessions[s] = "PROCESSING"
       /\ q # r /\ sumReq[q].session = s /\ sumReq[q].pc = "summarizing"
       /\ sumReq[q].text = FullTranscriptOf(s).text
       /\ summarizeCalls[s] = 2

\* the stop requests for session s, in the order they came
StopsOf(s) == {k \in DOMAIN stopReq : stopReq[k].session = s}

LastStop(s) == CHOOSE k \in StopsOf(s) : \A m \in StopsOf(s) : m <= k

\* C30: every stop request, the first or a later one, leaves in memory the
\* value it was given, or the highest sequence among the chunks at that
\* moment when it was given none, whatever was recorded before; no other step
\* changes a recorded value (the entry is only removed at completion); a
\* summary request that reads the boundary reads the value of the last stop.
C30_LastStopWins ==
  [][ /\ Len(stopReq') > Len(stopReq)
         => LET k == Len(stopReq')
                s == stopReq'[k].session
                given == stopReq'[k].lastSequence
            IN /\ s \in DOMAIN sessionLastChunks'
               /\ sessionLastChunks'[s] = stopReq'[k].finalSequence
               /\ given # {} => sessionLastChunks'[s] \in given
               /\ given = {} => IsMaxOrZero(sessionLastChunks'[s], s)
      /\ Len(stopReq') = Len(stopReq)
         => \A s \in DOMAIN sessionLastChunks' :
              /\ s \in DOMAIN sessionLastChunks
              /\ sessionLastChunks'[s] = sessionLastChunks[s]
      /\ \A s \in DOMAIN sessionLastChunks :
           StopsOf(s) # {} /\ sessionLastChunks[s] = stopReq[LastStop(s)].finalSequence
      /\ \A r \in DOMAIN sumReq :
           LET s == sumReq[r].session
           IN sumReq[r].pc = "ftLookup" /\ sumReq'[r].pc = "fetch"
                /\ s \in DOMAIN sessionLastChunks
              => sumReq'[r].lastChunkSeq = {stopReq[LastStop(s)].finalSequence}
    ]_vars

\* the first stop recorded the highest sequence 1, the second one was given 0:
\* the map holds 0 and a summary request has read 0 and made the
\* FullTranscript of the chunk with sequence 0 alone
C30_Witness ==
  /\ Len(stopReq) = 2
  /\ stopReq[1].session = stopReq[2].session
  /\ stopReq[1].lastSequence = {} /\ stopReq[1].finalSequence = 1
  /\ stopReq[2].lastSequence = {0}
  /\ sessionLastChunks = (stopReq[2].session :> 0)
  /\ \E r \in DOMAIN sumReq :
       /\ sumReq[r].pc = "createFT" /\ sumReq[r].lastChunkSeq = {0}
       /\ sumReq[r].text = <<"a">>
  /\ \E c \in ChunkIds : chunks[c].sequence = 1 /\ chunks[c].text = <<"a">>

\* C31: whenever a FullTranscript row is created for a session with a
\* recorded boundary N, a chunk of the session with sequence N exists and its
\* text is final.
C31_BoundaryChunkPresent ==
  [][ \A row \in fullTranscripts' \ fullTranscripts :
        LET s == row.sessionId
        IN s \in DOMAIN sessionLastChunks
           => \E c \in AllChunks(s) :
                /\ chunks[c].sequence = sessionLastChunks[s]
                /\ ~IsPlaceholderText(chunks[c].text)
    ]_vars

\* C32: a session with status COMPLETED has a Summary, and a session with a
\* Summary has a FullTranscript.
C32_ArtifactsNested ==
  \A s \in Sessions :
    /\ SessionExists(s) /\ sessions[s] = "COMPLETED" => HasSummary(s)
    /\ HasSummary(s) => HasFullTranscript(s)

\* a COMPLETED session with both rows, the Summary stored by another request
\* than the FullTranscript, after a stop request
C32_Witness ==
  \E s \in Sessions :
    /\ SessionExists(s) /\ sessions[s] = "COMPLETED"
    /\ HasSummary(s) /\ HasFullTranscript(s)
    /\ SummaryOf(s).id # FullTranscriptOf(s).id
    /\ \E k \in DOMAIN stopReq : stopReq[k].session = s /\ stopReq[k].resp = "Ok"

\* C33: whenever a session has a Summary and no request for it is being
\* handled, its status is COMPLETED.
C33_SummarizedIsCompleted ==
  \A s \in Sessions :
    HasSummary(s) /\ Quiet(s) /\ SessionExists(s) => sessions[s] = "COMPLETED"

\* C34: after a stop request has failed because its session does not exist,
\* the boundary map has no entry for that session id.
C34_FailedStopNoEntry ==
  \A k \in DOMAIN stopReq :
    /\ stopReq[k].pc = "done" /\ stopReq[k].resp = "Error"
    /\ ~SessionExists(stopReq[k].session)
    => stopReq[k].session \notin DOMAIN sessionLastChunks

\* C35: every FullTranscript row and every Summary row stays as it is in
\* every step, and a row is added only for a session that has none: the text
\* stored for a session is never changed or replaced.
C35_ArtifactsImmutable ==
  [][ /\ fullTranscripts \subseteq fullTranscripts'
      /\ \A row \in fullTranscripts' \ fullTranscripts :
           ~HasFullTranscript(row.sessionId)
      /\ summaries \subseteq summaries'
      /\ \A row \in summaries' \ summaries : ~HasSummary(row.sessionId)
    ]_vars

\* the FullTranscript is 'a' and the Summary is stored; a second chunk within
\* the recorded boundary has its text and is not part of it; a stop request
\* and a summary request that found the Summary have been answered
C35_Witness ==
  \E s \in OneSession :
    /\ HasFullTranscript(s) /\ FullTranscriptOf(s).text = <<"a">>
    /\ HasSummary(s)
    /\ s \in DOMAIN sessionLastChunks
    /\ \E c, d \in AllChunks(s) :
         /\ c # d
         /\ chunks[c].text = <<"a">> /\ chunks[d].text = <<" ", "b", " ">>
         /\ chunks[d].sequence <= sessionLastChunks[s]
         /\ ingest[d].resp = "Ok"
    /\ \E k \in DOMAIN stopReq : stopReq[k].resp = "Ok"
    /\ \E r \in DOMAIN sumReq : sumReq[r].resp = "Ok" /\ sumReq[r].cached

\* request i has been received and not answered
Pending(i) == i \in DOMAIN ingest /\ ingest[i].pc # "done"

Answered(i) == i \in DOMAIN ingest /\ ingest[i].resp \in {"Ok", "Error"}

\* C36: every ingest request that has been received is answered in the end,
\* with success or with an error, however many requests of the session are
\* queued before it.
C36_IngestAnswers ==
  \A i \in 1..MaxChunksQ : Pending(i) ~> Answered(i)

\* three requests of one session are answered: the first after a retried
\* attempt, the second with the error of its call, the third, which waited
\* behind the second, with the same error and without a call of its own
C36_Witness ==
  /\ Len(ingest) = 3
  /\ \A i \in DOMAIN ingest : ingest[i].pc = "done"
  /\ ingest[1].resp = "Ok" /\ ingest[1].failures > 0
  /\ ingest[2].prev = 1 /\ ingest[2].resp = "Error" /\ ingest[2].failures > 0
  /\ ingest[3].prev = 2 /\ ingest[3].resp = "Error" /\ ingest[3].attempts = 0

====
